---------------------------- MODULE Spec2Model ----------------------------
(***************************************************************************)
(* ROUGE-N scorer (rouge/rouge.py) and its ROUGE-1.5.5 tokenizer           *)
(* (rouge/utils/tokenize.py) as a state machine.                           *)
(*                                                                         *)
(* Texts, words, tokens and n-grams are strings, as in the source; the     *)
(* string operations of the source (split, re.sub, lower, join, slicing)   *)
(* are operators computed character by character.  Counters are functions  *)
(* from n-gram to count.  Floats are exact rationals <<num, den>>; the     *)
(* batch API rounds them to 5 decimals as round() does on the double,      *)
(* modelled in units of 10^-5.                                             *)
(***************************************************************************)
EXTENDS Integers, Sequences, FiniteSets, TLC

VARIABLES
    tokenizer,      \* Rouge155Tokenizer fields: byte_limit, word_limit, stem, sw_removal, sentence_split
    N,              \* Rouge.N
    scoring,        \* Rouge.scoring
    alpha,          \* Rouge.alpha, a rational <<num, den>>
    incremental,    \* Rouge.incremental, the dict of the incremental path
    input,          \* the texts the caller holds
    call,           \* the last call made: its operation and arguments
    ret,            \* what that call returned or raised
    session         \* history of the incremental path since the last reset

vars == <<tokenizer, N, scoring, alpha, incremental, input, call, ret, session>>

-----------------------------------------------------------------------------
(* Bounds of the model.                                                    *)

MaxTokens == 5
MaxSessionTokens == 3
MaxRefs == 2
MaxN == 2
MaxTextLen == 5
MaxByteLimit == 3
MaxWordLimit == 2
MaxWordLen == 4

-----------------------------------------------------------------------------
(* Characters and strings.                                                 *)

LOWER == "abcdefghijklmnopqrstuvwxyz"
UPPER == "ABCDEFGHIJKLMNOPQRSTUVWXYZ"
DIGITS == "0123456789"

CharAt(s, i) == SubSeq(s, i, i)

CharsOf(s) == {CharAt(s, i) : i \in 1..Len(s)}

LowerChars == CharsOf(LOWER)
UpperChars == CharsOf(UPPER)
DigitChars == CharsOf(DIGITS)

\* \s of the regular expressions (patterns on str) and the separators of
\* str.split(): the characters str.isspace() holds for.  After the five that
\* have an escape come U+000B, U+001C to U+001F, U+0085, U+00A0 and U+1680,
\* written as themselves.  The others (U+2000 to U+200A, U+2028, U+2029,
\* U+202F, U+205F, U+3000) cannot be written in a string here, so that no
\* text of this module holds one.
SpaceChars ==
    {" ", "\t", "\n", "\r", "\f", "", "", "", "", "", "", " ", " "}

IsSpace(c) == c \in SpaceChars

Min(a, b) == IF a <= b THEN a ELSE b

\* a list or a dict built in full, once: the same value as its argument
ListOf(s) == s \o <<>>
DictOf(f) == f @@ <<>>

RECURSIVE SumSeq(_)
SumSeq(s) == IF s = <<>> THEN 0 ELSE Head(s) + SumSeq(Tail(s))

\* str.lower() of one character, for the characters of ASCII: tokenize_text
\* lowers a word only after _preprocess_text has replaced every other
\* character by a space
LowerChar(c) ==
    IF c \in UpperChars
    THEN CharAt(LOWER, CHOOSE i \in 1..Len(UPPER) : CharAt(UPPER, i) = c)
    ELSE c

\* the strings below are worked on by halves: a text of n characters needs
\* a recursion of depth log n
RECURSIVE lower(_)
lower(s) ==
    IF s = "" THEN ""
    ELSE IF Len(s) = 1 THEN LowerChar(s)
    ELSE lower(SubSeq(s, 1, Len(s) \div 2)) \o lower(SubSeq(s, Len(s) \div 2 + 1, Len(s)))

\* x.split(sep) for a one-character separator: empty pieces are kept.  A
\* short string is walked character by character; a long one is cut at the
\* positions of its separators
RECURSIVE SplitOnFrom(_, _, _)
SplitOnFrom(s, sep, piece) ==
    IF s = "" THEN <<piece>>
    ELSE IF CharAt(s, 1) = sep
         THEN <<piece>> \o SplitOnFrom(SubSeq(s, 2, Len(s)), sep, "")
         ELSE SplitOnFrom(SubSeq(s, 2, Len(s)), sep, piece \o CharAt(s, 1))

SplitOn(s, sep) ==
    IF Len(s) <= 64 THEN SplitOnFrom(s, sep, "")
    ELSE LET IsSep(i) == CharAt(s, i) = sep
             seps == SelectSeq([i \in 1..Len(s) |-> i], IsSep)
             n == Len(seps)
         IN  ListOf([k \in 1..(n + 1) |->
                 SubSeq(s, IF k = 1 THEN 1 ELSE seps[k - 1] + 1,
                           IF k = n + 1 THEN Len(s) ELSE seps[k] - 1)])

\* x.split(): split on runs of whitespace, no empty pieces; short and long
\* strings as in SplitOn
RECURSIVE SplitWordsFrom(_, _)
SplitWordsFrom(s, piece) ==
    IF s = "" THEN (IF piece = "" THEN <<>> ELSE <<piece>>)
    ELSE IF IsSpace(CharAt(s, 1))
         THEN (IF piece = "" THEN <<>> ELSE <<piece>>)
              \o SplitWordsFrom(SubSeq(s, 2, Len(s)), "")
         ELSE SplitWordsFrom(SubSeq(s, 2, Len(s)), piece \o CharAt(s, 1))

SplitWords(s) ==
    IF Len(s) <= 64 THEN SplitWordsFrom(s, "")
    ELSE LET IsStart(i) == ~IsSpace(CharAt(s, i)) /\ (i = 1 \/ IsSpace(CharAt(s, i - 1)))
             IsEnd(i) == ~IsSpace(CharAt(s, i)) /\ (i = Len(s) \/ IsSpace(CharAt(s, i + 1)))
             starts == SelectSeq([i \in 1..Len(s) |-> i], IsStart)
             ends == SelectSeq([i \in 1..Len(s) |-> i], IsEnd)
         IN  ListOf([k \in 1..Len(starts) |-> SubSeq(s, starts[k], ends[k])])

\* sep.join(parts)
RECURSIVE Join(_, _)
Join(sep, parts) ==
    IF parts = <<>> THEN ""
    ELSE IF Len(parts) = 1 THEN parts[1]
    ELSE Join(sep, SubSeq(parts, 1, Len(parts) \div 2)) \o sep
         \o Join(sep, SubSeq(parts, Len(parts) \div 2 + 1, Len(parts)))

\* len(s.encode('utf8')): every character that reaches a token is ASCII
\* (_preprocess_text replaces all others by a space), one byte each
Utf8Len(s) == Len(s)

\* s.encode('utf8')[:k].decode() on such a string
Utf8Prefix(s, k) == SubSeq(s, 1, Min(k, Len(s)))

\* chain.from_iterable(sentences) as a list
RECURSIVE Flatten(_)
Flatten(ss) ==
    IF ss = <<>> THEN <<>>
    ELSE IF Len(ss) = 1 THEN ss[1]
    ELSE Flatten(SubSeq(ss, 1, Len(ss) \div 2))
         \o Flatten(SubSeq(ss, Len(ss) \div 2 + 1, Len(ss)))

-----------------------------------------------------------------------------
(* Rouge155Tokenizer.                                                      *)

\* the stopword file smart_common_words.txt, a few of its entries
StopWords == {"afterwards", "the", "b"}

\* WordNet-2.0-Exceptions (adj.exc, adv.exc, noun.exc, verb.exc): inflected
\* form -> base form, a few of its entries
WnExceptions ==
    [w \in {"aas", "freest", "hardest", "candelabra", "hobnobbing"} |->
        CASE w = "aas" -> "aa"
          [] w = "freest" -> "free"
          [] w = "hardest" -> "hard"
          [] w = "candelabra" -> "candelabrum"
          [] w = "hobnobbing" -> "hobnob"]

\* nltk.stem.porter.PorterStemmer('MARTIN_EXTENSIONS'), method by method.
\* Positions count from 1.
EndsWith(word, suffix) ==
    \/ suffix = ""
    \/ /\ Len(suffix) <= Len(word)
       /\ SubSeq(word, Len(word) - Len(suffix) + 1, Len(word)) = suffix
DropLast(word, k) == SubSeq(word, 1, Len(word) - k)

RECURSIVE is_consonant(_, _)
is_consonant(word, i) ==
    IF CharAt(word, i) \in {"a", "e", "i", "o", "u"} THEN FALSE
    ELSE IF CharAt(word, i) = "y" THEN (IF i = 1 THEN TRUE ELSE ~is_consonant(word, i - 1))
    ELSE TRUE

\* the number of "vc" in the consonant/vowel pattern of the stem
measure(word) ==
    Cardinality({i \in 1..(Len(word) - 1) : ~is_consonant(word, i) /\ is_consonant(word, i + 1)})
contains_vowel(word) == \E i \in 1..Len(word) : ~is_consonant(word, i)
ends_double_consonant(word) ==
    /\ Len(word) >= 2
    /\ CharAt(word, Len(word)) = CharAt(word, Len(word) - 1)
    /\ is_consonant(word, Len(word))
ends_cvc(word) ==
    /\ Len(word) >= 3
    /\ is_consonant(word, Len(word) - 2)
    /\ ~is_consonant(word, Len(word) - 1)
    /\ is_consonant(word, Len(word))
    /\ CharAt(word, Len(word)) \notin {"w", "x", "y"}

\* the conditions of the rules, by name; word is the word the rule list is
\* applied to, st the stem the rule has cut
RuleCondition(name, st, word) ==
    CASE name = "none" -> TRUE
      [] name = "m>0" -> measure(st) > 0
      [] name = "m>1" -> measure(st) > 1
      [] name = "m>1 and *s or *t" ->
            measure(st) > 1 /\ CharAt(st, Len(st)) \in {"s", "t"}
      [] name = "not *l, *s, *z" -> CharAt(word, Len(word)) \notin {"l", "s", "z"}
      [] name = "m=1 and *o" -> measure(st) = 1 /\ ends_cvc(st)
      [] name = "*v*" -> contains_vowel(st)
      [] name = "m>1 of word[:-1]" -> measure(DropLast(word, 1)) > 1

\* _apply_rule_list: the first rule whose suffix matches decides; a rule is
\* <<suffix, replacement, condition>>
RECURSIVE apply_rule_list(_, _)
apply_rule_list(word, rules) ==
    IF rules = <<>> THEN word
    ELSE LET rule == Head(rules) IN
         IF rule[1] = "*d" /\ ends_double_consonant(word)
         THEN (IF RuleCondition(rule[3], DropLast(word, 2), word)
               THEN DropLast(word, 2) \o rule[2] ELSE word)
         ELSE IF EndsWith(word, rule[1])
         THEN (IF RuleCondition(rule[3], DropLast(word, Len(rule[1])), word)
               THEN DropLast(word, Len(rule[1])) \o rule[2] ELSE word)
         ELSE apply_rule_list(word, Tail(rules))

step1a(word) ==
    apply_rule_list(word, << <<"sses", "ss", "none">>, <<"ies", "i", "none">>,
                             <<"ss", "ss", "none">>, <<"s", "", "none">> >>)

step1b(word) ==
    IF EndsWith(word, "eed")
    THEN (IF measure(DropLast(word, 3)) > 0 THEN DropLast(word, 3) \o "ee" ELSE word)
    ELSE LET intermediate_stem ==
                 IF EndsWith(word, "ed") /\ contains_vowel(DropLast(word, 2))
                 THEN DropLast(word, 2)
                 ELSE DropLast(word, 3)
             rule_2_or_3_succeeded ==
                 \/ EndsWith(word, "ed") /\ contains_vowel(DropLast(word, 2))
                 \/ EndsWith(word, "ing") /\ contains_vowel(DropLast(word, 3))
         IN  IF ~rule_2_or_3_succeeded THEN word
             ELSE apply_rule_list(intermediate_stem,
                    << <<"at", "ate", "none">>, <<"bl", "ble", "none">>, <<"iz", "ize", "none">>,
                       <<"*d", CharAt(intermediate_stem, Len(intermediate_stem)), "not *l, *s, *z">>,
                       <<"", "e", "m=1 and *o">> >>)

step1c(word) == apply_rule_list(word, << <<"y", "i", "*v*">> >>)

step2(word) ==
    apply_rule_list(word,
        << <<"ational", "ate", "m>0">>, <<"tional", "tion", "m>0">>, <<"enci", "ence", "m>0">>,
           <<"anci", "ance", "m>0">>, <<"izer", "ize", "m>0">>, <<"bli", "ble", "m>0">>,
           <<"alli", "al", "m>0">>, <<"entli", "ent", "m>0">>, <<"eli", "e", "m>0">>,
           <<"ousli", "ous", "m>0">>, <<"ization", "ize", "m>0">>, <<"ation", "ate", "m>0">>,
           <<"ator", "ate", "m>0">>, <<"alism", "al", "m>0">>, <<"iveness", "ive", "m>0">>,
           <<"fulness", "ful", "m>0">>, <<"ousness", "ous", "m>0">>, <<"aliti", "al", "m>0">>,
           <<"iviti", "ive", "m>0">>, <<"biliti", "ble", "m>0">>, <<"logi", "log", "m>0">> >>)

step3(word) ==
    apply_rule_list(word,
        << <<"icate", "ic", "m>0">>, <<"ative", "", "m>0">>, <<"alize", "al", "m>0">>,
           <<"iciti", "ic", "m>0">>, <<"ical", "ic", "m>0">>, <<"ful", "", "m>0">>,
           <<"ness", "", "m>0">> >>)

step4(word) ==
    apply_rule_list(word,
        << <<"al", "", "m>1">>, <<"ance", "", "m>1">>, <<"ence", "", "m>1">>, <<"er", "", "m>1">>,
           <<"ic", "", "m>1">>, <<"able", "", "m>1">>, <<"ible", "", "m>1">>, <<"ant", "", "m>1">>,
           <<"ement", "", "m>1">>, <<"ment", "", "m>1">>, <<"ent", "", "m>1">>,
           <<"ion", "", "m>1 and *s or *t">>, <<"ou", "", "m>1">>, <<"ism", "", "m>1">>,
           <<"ate", "", "m>1">>, <<"iti", "", "m>1">>, <<"ous", "", "m>1">>, <<"ive", "", "m>1">>,
           <<"ize", "", "m>1">> >>)

step5a(word) ==
    IF EndsWith(word, "e")
    THEN LET st == DropLast(word, 1)
         IN  IF measure(st) > 1 THEN st
             ELSE IF measure(st) = 1 /\ ~ends_cvc(st) THEN st
             ELSE word
    ELSE word

step5b(word) == apply_rule_list(word, << <<"ll", "l", "m>1 of word[:-1]">> >>)

\* PorterStemmer.stem: the word in lower case, left alone when it has one
\* or two letters
PorterStem(word) ==
    IF Len(word) <= 2 THEN lower(word)
    ELSE step5b(step5a(step4(step3(step2(step1c(step1b(step1a(lower(word)))))))))

\* the function _get_stemmer returns when stem is true
stem(x) ==
    IF x \in DOMAIN WnExceptions THEN PorterStem(WnExceptions[x]) ELSE PorterStem(x)

\* the function _get_stopword_remover returns when sw_removal is true;
\* None is the empty string here (both are falsy where the result is used)
remove_stopwords(x) == IF x \in StopWords THEN "" ELSE x

\* _get_sentence_splitter: how the call ends for a mode (None is "None");
\* the assertion comes first, so the two branches that raise
\* NotImplementedError are never reached
valid_methods == {"None", "SPL", "SEE"}

get_sentence_splitter(sentence_split) ==
    IF sentence_split \notin valid_methods THEN "AssertionError"
    ELSE IF sentence_split = "None" THEN "ok"
    ELSE IF sentence_split = "SPL" THEN "ok"
    ELSE IF sentence_split = "SEE" THEN "ok"
    ELSE IF sentence_split = "ISI" THEN "NotImplementedError"
    ELSE IF sentence_split = "SIMPLE" THEN "NotImplementedError"
    ELSE "ok"

HasSubstring(x, sub) ==
    \E i \in 1..Len(x) : i + Len(sub) - 1 <= Len(x) /\ SubSeq(x, i, i + Len(sub) - 1) = sub

\* The SEE pattern, an alternation of two sequences of pieces: <<"lit", s>>
\* is the literal s, <<"digits">> is [0-9]+, <<"space">> is \s+ and
\* <<"text">> is ([^<]+), the last group of its alternative.  The groups
\* ([0-9]+) between the brackets capture too, but only the last is read.
SeeTail ==
    << <<"lit", "\">[">>, <<"digits">>, <<"lit", "]</a>">>, <<"space">>,
       <<"lit", "<a href=\"#">>, <<"digits">>, <<"lit", "\" id=">>, <<"digits">>,
       <<"lit", ">">>, <<"text">> >>
SeePatternSized ==
    << <<"lit", "<a size=\"">>, <<"digits">>, <<"lit", "\" name=\"">>, <<"digits">> >> \o SeeTail
SeePatternPlain ==
    << <<"lit", "<a name=\"">>, <<"digits">> >> \o SeeTail

\* the position after the longest run of characters of one class that
\* starts at i
RunEnd(x, i, kind) ==
    LET ok(c) == IF kind = "digits" THEN c \in DigitChars
                 ELSE IF kind = "space" THEN IsSpace(c)
                 ELSE c # "<"
    IN  CHOOSE j \in i..(Len(x) + 1) :
            /\ \A k \in i..(j - 1) : ok(CharAt(x, k))
            /\ j = Len(x) + 1 \/ ~ok(CharAt(x, j))

\* re matching of a sequence of pieces at position i: the position after the
\* match, 0 when there is none.  Each repetition is followed by a piece that
\* cannot start with a character of the repetition, or by nothing, so the
\* longest run is the only one that can lead to a match.
RECURSIVE MatchPieces(_, _, _)
MatchPieces(x, i, pieces) ==
    IF pieces = <<>> THEN i
    ELSE LET piece == Head(pieces)
             j == IF piece[1] = "lit"
                  THEN (IF /\ i + Len(piece[2]) - 1 <= Len(x)
                           /\ SubSeq(x, i, i + Len(piece[2]) - 1) = piece[2]
                        THEN i + Len(piece[2]) ELSE 0)
                  ELSE (IF RunEnd(x, i, piece[1]) > i THEN RunEnd(x, i, piece[1]) ELSE 0)
         IN  IF j = 0 THEN 0 ELSE MatchPieces(x, j, Tail(pieces))

\* [m[-1] for m in re.findall(pattern, x)]: the matches from left to right,
\* without overlap, the first alternative tried first; m[-1] is the text
\* group of the second alternative, empty when the first one matched
RECURSIVE SeeSentencesFrom(_, _)
SeeSentencesFrom(x, i) ==
    LET starts == {j \in i..Len(x) : MatchPieces(x, j, SeePatternSized) > 0
                                      \/ MatchPieces(x, j, SeePatternPlain) > 0}
    IN  IF starts = {} THEN <<>>
        ELSE LET at == CHOOSE j \in starts : \A k \in starts : j <= k
                 sized == MatchPieces(x, at, SeePatternSized)
                 plain == MatchPieces(x, at, SeePatternPlain)
                 text_at == MatchPieces(x, at, SubSeq(SeePatternPlain, 1, Len(SeePatternPlain) - 1))
             IN  IF sized > 0 THEN <<"">> \o SeeSentencesFrom(x, sized)
                 ELSE <<SubSeq(x, text_at, plain - 1)>> \o SeeSentencesFrom(x, plain)

SeeSentences(x) == SeeSentencesFrom(x, 1)

\* the function _get_sentence_splitter returns
split_sentences(mode, x) ==
    IF mode = "None" THEN <<x>>
    ELSE IF mode = "SEE" THEN SeeSentences(x)
    ELSE SplitOn(x, "\n")

RECURSIVE SubHyphen(_)
SubHyphen(s) ==
    IF s = "" THEN ""
    ELSE IF Len(s) = 1 THEN (IF s = "-" THEN " - " ELSE s)
    ELSE SubHyphen(SubSeq(s, 1, Len(s) \div 2))
         \o SubHyphen(SubSeq(s, Len(s) \div 2 + 1, Len(s)))

\* [A-Za-z0-9\-] and [a-z0-9\$] of the regular expressions
WordChars == LowerChars \cup UpperChars \cup DigitChars \cup {"-"}
TokenStartChars == LowerChars \cup DigitChars \cup {"$"}

RECURSIVE SubNonWord(_)
SubNonWord(s) ==
    IF s = "" THEN ""
    ELSE IF Len(s) = 1 THEN (IF s \in WordChars THEN s ELSE " ")
    ELSE SubNonWord(SubSeq(s, 1, Len(s) \div 2))
         \o SubNonWord(SubSeq(s, Len(s) \div 2 + 1, Len(s)))

\* the three whitespace substitutions: strip both ends, collapse runs to one space
CollapseSpace(s) == Join(" ", SplitWords(s))

preprocess_text(text) == CollapseSpace(SubNonWord(SubHyphen(text)))

\* a normalization that stems before it looks the word up: what C12 rules out
preprocess_word_stem_first(tk, word) ==
    LET w1 == lower(word)
        w2 == IF tk.stem /\ w1 # "" THEN stem(w1) ELSE w1
        w3 == IF tk.sw_removal THEN remove_stopwords(w2) ELSE w2
    IN  IF w3 # "" /\ CharAt(w3, 1) \notin TokenStartChars THEN "" ELSE w3

preprocess_word(tk, word) ==
    LET w1 == lower(word)
        w2 == IF tk.sw_removal THEN remove_stopwords(w1) ELSE w1
        w3 == IF w2 # "" /\ CharAt(w2, 1) \notin TokenStartChars
              THEN "" ELSE w2
    IN  IF tk.stem /\ w3 # "" THEN stem(w3) ELSE w3

\* tokenize.py 187: a word is kept when its token is not empty
IsToken(t) == t # ""

KeepTokens(tk, words) ==
    SelectSeq([i \in DOMAIN words |-> preprocess_word(tk, words[i])], IsToken)

\* a walk that keeps the crossing token whole: what C10 rules out
RECURSIVE TruncateSentenceBytesUncut(_, _, _, _)
TruncateSentenceBytesUncut(limit, words, byte_len, acc) ==
    IF words = <<>> THEN [sent |-> acc, byte_len |-> byte_len, hit |-> FALSE]
    ELSE LET word == Head(words)
             new_byte_len == byte_len + Utf8Len(word)
         IN  IF new_byte_len >= limit
             THEN [sent |-> Append(acc, word), byte_len |-> limit, hit |-> TRUE]
             ELSE TruncateSentenceBytesUncut(limit, Tail(words), new_byte_len, Append(acc, word))

\* the walk of one sentence in _truncate_bytes: [sent, byte_len, hit]
RECURSIVE TruncateSentenceBytes(_, _, _, _)
TruncateSentenceBytes(limit, words, byte_len, acc) ==
    IF words = <<>> THEN [sent |-> acc, byte_len |-> byte_len, hit |-> FALSE]
    ELSE LET word == Head(words)
             new_byte_len == byte_len + Utf8Len(word)
         IN  IF new_byte_len >= limit
             THEN [sent |-> Append(acc, Utf8Prefix(word, limit - byte_len)),
                   byte_len |-> limit, hit |-> TRUE]
             ELSE TruncateSentenceBytes(limit, Tail(words), new_byte_len, Append(acc, word))

RECURSIVE TruncateBytesFrom(_, _, _)
TruncateBytesFrom(limit, doc, byte_len) ==
    IF doc = <<>> THEN <<>>
    ELSE LET sentence == Head(doc)
             new_byte_len == byte_len + Utf8Len(Join("", sentence))
             walk == TruncateSentenceBytes(limit, sentence, byte_len, <<>>)
             kept == IF new_byte_len > limit
                     THEN (IF walk.hit THEN <<walk.sent>> ELSE <<>>)
                     ELSE <<sentence>>
             len2 == IF new_byte_len > limit THEN walk.byte_len ELSE new_byte_len
         IN  IF len2 = limit THEN kept
             ELSE kept \o TruncateBytesFrom(limit, Tail(doc), len2)

truncate_bytes(byte_limit, tokenized_text) == TruncateBytesFrom(byte_limit, tokenized_text, 0)

\* a walk that keeps the crossing sentence whole: what C11 rules out
RECURSIVE TruncateWordsFromWhole(_, _, _)
TruncateWordsFromWhole(limit, doc, word_len) ==
    IF doc = <<>> THEN <<>>
    ELSE LET sentence == Head(doc)
             new_word_len == word_len + Len(sentence)
             len2 == IF new_word_len > limit THEN limit ELSE new_word_len
         IN  IF len2 = limit THEN <<sentence>>
             ELSE <<sentence>> \o TruncateWordsFromWhole(limit, Tail(doc), len2)

RECURSIVE TruncateWordsFrom(_, _, _)
TruncateWordsFrom(limit, doc, word_len) ==
    IF doc = <<>> THEN <<>>
    ELSE LET sentence == Head(doc)
             new_word_len == word_len + Len(sentence)
             kept == IF new_word_len > limit
                     THEN SubSeq(sentence, 1, limit - word_len)
                     ELSE sentence
             len2 == IF new_word_len > limit THEN limit ELSE new_word_len
         IN  IF len2 = limit THEN <<kept>>
             ELSE <<kept>> \o TruncateWordsFrom(limit, Tail(doc), len2)

truncate_words(word_limit, tokenized_text) == TruncateWordsFrom(word_limit, tokenized_text, 0)

\* tokenize.py 185-188: the loop over the sentences
TokenizeSentences(tk, sentences) ==
    ListOf([i \in 1..Len(sentences) |->
        KeepTokens(tk, SplitWords(preprocess_text(sentences[i])))])

\* tokenize.py 190-194: the two limits
TruncateTokenized(tk, tokenized_text) ==
    LET t1 == IF tk.byte_limit # 0 THEN truncate_bytes(tk.byte_limit, tokenized_text)
              ELSE tokenized_text
    IN  IF tk.word_limit # 0 THEN truncate_words(tk.word_limit, t1) ELSE t1

tokenize_text(tk, text) ==
    TruncateTokenized(tk, TokenizeSentences(tk, split_sentences(tk.sentence_split, text)))

-----------------------------------------------------------------------------
(* Numbers.  The value a float stands for is kept as an exact rational     *)
(* <<num, den>> in lowest terms; where the rounding of the float itself    *)
(* decides a result (round(x, 5) on a tie), the IEEE 754 double is         *)
(* computed as well.                                                       *)

RECURSIVE GCD(_, _)
GCD(a, b) == IF b = 0 THEN a ELSE GCD(b, a % b)

Rat(n, d) == LET g == GCD(n, d) IN <<n \div g, d \div g>>

Zero == <<0, 1>>
One == <<1, 1>>

\* common factors are taken out before the products are formed
RMul(x, y) ==
    LET g1 == GCD(x[1], y[2])
        g2 == GCD(y[1], x[2])
    IN  Rat((x[1] \div g1) * (y[1] \div g2), (x[2] \div g2) * (y[2] \div g1))
RAdd(x, y) ==
    LET g == GCD(x[2], y[2])
    IN  Rat(x[1] * (y[2] \div g) + y[1] * (x[2] \div g), x[2] * (y[2] \div g))
RSub(x, y) ==
    LET g == GCD(x[2], y[2])
    IN  Rat(x[1] * (y[2] \div g) - y[1] * (x[2] \div g), x[2] * (y[2] \div g))
RDiv(x, y) == RMul(x, <<y[2], y[1]>>)
RLess(x, y) == x[1] * y[2] < y[1] * x[2]
RLeq(x, y) == x[1] * y[2] <= y[1] * x[2]

\* The element of a one-element set.  The({e(v) : v \in {x}}) is e(x) with x
\* computed once and then held as a value, however often e uses it.
The(S) == CHOOSE r \in S : TRUE

\* Natural numbers of any size, as their binary digits, lowest first and
\* without leading zeros: what the arithmetic on 53-bit mantissas needs.
RECURSIVE BitsOf(_)
BitsOf(n) == IF n = 0 THEN <<>> ELSE <<n % 2>> \o BitsOf(n \div 2)

BigNorm(a0) ==
    The({ IF \A i \in DOMAIN a : a[i] = 0 THEN <<>>
          ELSE SubSeq(a, 1, CHOOSE m \in DOMAIN a :
                                a[m] # 0 /\ \A j \in (m + 1)..Len(a) : a[j] = 0)
          : a \in {a0} })

\* The arithmetic works on limbs of 13 digits, so that every partial result
\* fits a machine integer.
LimbBits == 13
LimbBase == 8192

RECURSIVE BitsValue(_, _, _)
BitsValue(a, low, high) ==
    IF low > high THEN 0 ELSE a[low] + 2 * BitsValue(a, low + 1, high)

LimbsOf(a0) ==
    The({ LET n == (Len(a) + LimbBits - 1) \div LimbBits
          IN  SubSeq([i \in 1..n |->
                  BitsValue(a, LimbBits * (i - 1) + 1, Min(LimbBits * i, Len(a)))], 1, n)
          : a \in {a0} })

FromLimbs(limbs) ==
    The({ BigNorm(SubSeq([p \in 1..(LimbBits * Len(l)) |->
                      (l[(p - 1) \div LimbBits + 1] \div 2^((p - 1) % LimbBits)) % 2],
                  1, LimbBits * Len(l)))
          : l \in {limbs} })

LimbAt(l, k) == IF k \in DOMAIN l THEN l[k] ELSE 0

RECURSIVE AddLimbs(_, _, _, _)
AddLimbs(la, lb, k, carry) ==
    IF k > Len(la) /\ k > Len(lb) /\ carry = 0 THEN <<>>
    ELSE The({ <<t % LimbBase>> \o AddLimbs(la, lb, k + 1, t \div LimbBase)
               : t \in {LimbAt(la, k) + LimbAt(lb, k) + carry} })

BigAdd(a, b) ==
    The({ FromLimbs(AddLimbs(la, lb, 1, 0)) : la \in {LimbsOf(a)}, lb \in {LimbsOf(b)} })

\* a - b for a >= b
RECURSIVE SubLimbs(_, _, _, _)
SubLimbs(la, lb, k, borrow) ==
    IF k > Len(la) THEN <<>>
    ELSE The({ <<(d + LimbBase) % LimbBase>>
               \o SubLimbs(la, lb, k + 1, IF d < 0 THEN 1 ELSE 0)
               : d \in {la[k] - LimbAt(lb, k) - borrow} })

BigSub(a, b) ==
    The({ FromLimbs(SubLimbs(la, lb, 1, 0)) : la \in {LimbsOf(a)}, lb \in {LimbsOf(b)} })

BigLess(a0, b0) ==
    \E a \in {a0}, b \in {b0} :
        \/ Len(a) < Len(b)
        \/ /\ Len(a) = Len(b)
           /\ \E i \in 1..Len(a) : a[i] < b[i] /\ \A j \in (i + 1)..Len(a) : a[j] = b[j]

\* a * 2^k
BigShift(a0, k) ==
    The({ IF a = <<>> THEN <<>> ELSE [i \in 1..k |-> 0] \o a : a \in {a0} })

RECURSIVE ColumnSum(_, _, _, _)
ColumnSum(la, lb, k, i) ==
    IF i > Len(la) THEN 0
    ELSE la[i] * LimbAt(lb, k - i + 1) + ColumnSum(la, lb, k, i + 1)

RECURSIVE MulLimbs(_, _, _, _)
MulLimbs(la, lb, k, carry) ==
    IF k > Len(la) + Len(lb) - 1 /\ carry = 0 THEN <<>>
    ELSE The({ <<t % LimbBase>> \o MulLimbs(la, lb, k + 1, t \div LimbBase)
               : t \in {ColumnSum(la, lb, k, 1) + carry} })

\* a * b, for factors of at most 65 digits
BigMul(a, b) ==
    The({ IF la = <<>> \/ lb = <<>> THEN <<>> ELSE FromLimbs(MulLimbs(la, lb, 1, 0))
          : la \in {LimbsOf(a)}, lb \in {LimbsOf(b)} })

\* A Python float (an IEEE 754 double) that is not negative: <<m, e>> is
\* m * 2^e, m a natural number as above; every operation gives a mantissa m
\* of 53 digits (2^53 when the rounding carries), or 0.
FloatZero == <<<<>>, 0>>

\* one more digit before the digits found so far
PutDigit(rest, digit) == <<rest[1] \o <<digit>>, rest[2]>>

\* the next k binary digits of rem / b (rem < b), lowest first, and what
\* remains; QuotientBits takes them eight at a time
RECURSIVE QuotientChunk(_, _, _)
QuotientChunk(rem, b, k) ==
    IF k = 0 THEN <<<<>>, rem>>
    ELSE The({ IF BigLess(twice, b)
               THEN The({ PutDigit(rest, 0) : rest \in {QuotientChunk(twice, b, k - 1)} })
               ELSE The({ PutDigit(rest, 1)
                          : rest \in {QuotientChunk(BigSub(twice, b), b, k - 1)} })
               : twice \in {BigShift(rem, 1)} })

RECURSIVE QuotientBits(_, _, _)
QuotientBits(rem, b, k) ==
    IF k <= 8 THEN QuotientChunk(rem, b, k)
    ELSE The({ IF high[2] = <<>> THEN <<[i \in 1..(k - 8) |-> 0] \o high[1], <<>>>>
               ELSE The({ <<low[1] \o high[1], low[2]>>
                          : low \in {QuotientBits(high[2], b, k - 8)} })
               : high \in {QuotientChunk(rem, b, 8)} })

\* the t for which a / b * 2^t lies in [1, 2)
Alignment(a, b) ==
    LET t0 == Len(b) - Len(a)
    IN  IF BigLess(BigShift(a, IF t0 > 0 THEN t0 ELSE 0),
                   BigShift(b, IF t0 < 0 THEN 0 - t0 ELSE 0))
        THEN t0 + 1 ELSE t0

\* from the 53 digits q[1] after the leading 1 and the remainder q[2]: 52
\* digits make the mantissa, the last digit and the remainder round it
RoundQuotient(q, e) ==
    LET mantissa == SubSeq(q[1], 2, 53) \o <<1>>
        round_up == q[1][1] = 1 /\ (q[2] # <<>> \/ mantissa[1] = 1)
    IN  <<IF round_up THEN BigAdd(mantissa, <<1>>) ELSE mantissa, e>>

\* a2 / b2 in [1, 2), rounded to 53 digits
DivideAligned(a2, b2, e) ==
    The({ RoundQuotient(q, e) : q \in {QuotientBits(BigSub(a2, b2), b2, 53)} })

\* the double nearest to a / b * 2^e, the even mantissa on a tie: the result
\* of every float operation is its exact result rounded this way
RoundToDouble(a0, b0, e) ==
    The({ IF a = <<>> THEN FloatZero
          ELSE The({ The({ DivideAligned(a2, b2, e - t - 52)
                           : a2 \in {BigShift(a, IF t > 0 THEN t ELSE 0)},
                             b2 \in {BigShift(b, IF t < 0 THEN 0 - t ELSE 0)} })
                     : t \in {Alignment(a, b)} })
          : a \in {a0}, b \in {b0} })

FloatOf(x) == RoundToDouble(BitsOf(x[1]), BitsOf(x[2]), 0)
FMul(x0, y0) ==
    The({ RoundToDouble(BigMul(x[1], y[1]), <<1>>, x[2] + y[2]) : x \in {x0}, y \in {y0} })
FDiv(x0, y0) ==
    The({ RoundToDouble(x[1], y[1], x[2] - y[2]) : x \in {x0}, y \in {y0} })
FAdd(x0, y0) ==
    The({ IF x[1] = <<>> THEN y
          ELSE IF y[1] = <<>> THEN x
          ELSE LET e == Min(x[2], y[2])
               IN  RoundToDouble(BigAdd(BigShift(x[1], x[2] - e), BigShift(y[1], y[2] - e)),
                                 <<1>>, e)
          : x \in {x0}, y \in {y0} })
\* x - y for x >= y
FSub(x0, y0) ==
    The({ IF y[1] = <<>> THEN x
          ELSE LET e == Min(x[2], y[2])
               IN  RoundToDouble(BigSub(BigShift(x[1], x[2] - e), BigShift(y[1], y[2] - e)),
                                 <<1>>, e)
          : x \in {x0}, y \in {y0} })

\* the float x against the rational r: "<", "=" or ">"
FloatAgainst(x0, r) ==
    The({ The({ IF BigLess(lhs, rhs) THEN "<" ELSE IF BigLess(rhs, lhs) THEN ">" ELSE "="
                : lhs \in {BigShift(BigMul(x[1], BitsOf(r[2])), IF x[2] > 0 THEN x[2] ELSE 0)},
                  rhs \in {BigShift(BitsOf(r[1]), IF x[2] < 0 THEN 0 - x[2] ELSE 0)} })
          : x \in {x0} })

\* r in units of 10^-5 by long division: <<q, rem>> with
\* r * 10^5 = q + rem / r[2] and rem < r[2]
RECURSIVE LongDivide(_, _, _, _)
LongDivide(q, rem, den, k) ==
    IF k = 0 THEN <<q, rem>>
    ELSE LongDivide(10 * q + (10 * rem) \div den, (10 * rem) % den, den, k - 1)

\* (a numerator under 20000 can be scaled in one step)
Scaled5(r) ==
    IF r[1] < 20000 THEN <<(100000 * r[1]) \div r[2], (100000 * r[1]) % r[2]>>
    ELSE LongDivide(r[1] \div r[2], r[1] % r[2], r[2], 5)

\* r lies half way between two multiples of 10^-5
IsTie5(r) == 2 * Scaled5(r)[2] = r[2]

\* round(x, 5) for the float x that the code computes where exact arithmetic
\* gives the rational r.  round() gives the multiple of 10^-5 nearest to the
\* exact value of x, the even one on a tie.  x is within a few units in the
\* last place of r, so the two round alike unless r is a tie; then x is
\* rounded by the side of r it lies on.
RoundFloat5(r, x) ==
    LET scaled == Scaled5(r)
        down == scaled[1]
        twice == 2 * scaled[2]
    IN  IF twice > r[2] THEN down + 1
        ELSE IF twice < r[2] THEN down
        ELSE The({ IF side = ">" THEN down + 1
                   ELSE IF side = "<" THEN down
                   ELSE IF down % 2 = 0 THEN down ELSE down + 1
                   : side \in {FloatAgainst(x, r)} })

\* round(x, 5) of a quotient of two integers, x[1] / x[2]
round5(x) == RoundFloat5(x, FloatOf(x))

\* (precision*recall) / ((1-self.alpha)*precision + self.alpha*recall) in
\* floats, for an alpha of at most 1
FScoreFloat(precision, recall, a) ==
    The({ FDiv(FMul(p, r), FAdd(FMul(FSub(FloatOf(One), fa), p), FMul(fa, r)))
          : p \in {FloatOf(precision)}, r \in {FloatOf(recall)}, fa \in {FloatOf(a)} })

-----------------------------------------------------------------------------
(* Rouge.                                                                  *)

RangeOf(s) == {s[i] : i \in DOMAIN s}

\* Counter(ngrams)
generate_counter(ngrams) ==
    DictOf([g \in RangeOf(ngrams) |-> Cardinality({i \in DOMAIN ngrams : ngrams[i] = g})])

\* sum(counter.values())
RECURSIVE SumOver(_, _)
SumOver(f, keys) ==
    IF keys = {} THEN 0
    ELSE LET k == CHOOSE x \in keys : TRUE IN f[k] + SumOver(f, keys \ {k})

CounterTotal(counter) == SumOver(counter, DOMAIN counter)

ngram_tokenize(tokenized_sentences, n) ==
    LET tokenized_text == Flatten(tokenized_sentences)
        \* range(len(tokenized_text)-n+1): empty when the bound is not positive
        count == IF Len(tokenized_text) - n + 1 > 0 THEN Len(tokenized_text) - n + 1 ELSE 0
    IN  ListOf([i \in 1..count |-> Join(" ", SubSeq(tokenized_text, i, i + n - 1))])

\* a match count that counts every shared n-gram once: what C2 rules out
matches_of_distinct(ref_counter, cand_counter) ==
    Cardinality(DOMAIN cand_counter \cap DOMAIN ref_counter)

\* a match count that takes the larger of the two counts: what C9 rules out
matches_of_larger(ref_counter, cand_counter) ==
    LET common == DOMAIN cand_counter \cap DOMAIN ref_counter
        matches == DictOf([ngram \in common |->
                       IF ref_counter[ngram] > cand_counter[ngram]
                       THEN ref_counter[ngram] ELSE cand_counter[ngram]])
    IN  SumOver(matches, common)

\* rouge.py 82-84: the match count of one reference
matches_of(ref_counter, cand_counter) ==
    LET common == DOMAIN cand_counter \cap DOMAIN ref_counter
        matches == DictOf([ngram \in common |-> Min(ref_counter[ngram], cand_counter[ngram])])
    IN  SumOver(matches, common)

\* rouge.py 73-84: the lists cands_count, refs_count, matches_count, zipped
ref_stats(ref_texts_tokens, cand_text_tokens, n) ==
    LET cand_counter == generate_counter(ngram_tokenize(cand_text_tokens, n))
        cand_count == CounterTotal(cand_counter)
    IN  ListOf([i \in 1..Len(ref_texts_tokens) |->
            LET ref_counter == generate_counter(ngram_tokenize(ref_texts_tokens[i], n))
            IN  [cands_count |-> cand_count,
                 refs_count |-> CounterTotal(ref_counter),
                 matches_count |-> matches_of(ref_counter, cand_counter)]])

\* an average that does not pool the candidate counts: what C3 rules out
aggregate_average_unpooled(stats) ==
    [status |-> "ok",
     cands_count |-> IF stats = <<>> THEN 0 ELSE stats[1].cands_count,
     refs_count |-> SumSeq([i \in DOMAIN stats |-> stats[i].refs_count]),
     matches_count |-> SumSeq([i \in DOMAIN stats |-> stats[i].matches_count])]

\* rouge.py 87: scoring "A"
aggregate_average(stats) ==
    [status |-> "ok",
     cands_count |-> SumSeq([i \in DOMAIN stats |-> stats[i].cands_count]),
     refs_count |-> SumSeq([i \in DOMAIN stats |-> stats[i].refs_count]),
     matches_count |-> SumSeq([i \in DOMAIN stats |-> stats[i].matches_count])]

Failed(error) == [status |-> error, cands_count |-> 0, refs_count |-> 0, matches_count |-> 0]

\* a variant of aggregate_best that keeps the last of the references whose
\* ratio is largest
aggregate_best_last(stats) ==
    IF stats = <<>> THEN Failed("ValueError")
    ELSE IF \E i \in DOMAIN stats : stats[i].refs_count = 0 THEN Failed("ZeroDivisionError")
    ELSE LET key(i) == <<stats[i].matches_count, stats[i].refs_count>>
             best == CHOOSE i \in DOMAIN stats :
                        /\ \A j \in DOMAIN stats : RLeq(key(j), key(i))
                        /\ \A j \in (i + 1)..Len(stats) : RLess(key(j), key(i))
         IN  [status |-> "ok",
              cands_count |-> stats[best].cands_count,
              refs_count |-> stats[best].refs_count,
              matches_count |-> stats[best].matches_count]

\* rouge.py 90-91: scoring "B"; max() calls the key on every item and keeps
\* the first item whose key is largest
aggregate_best(stats) ==
    IF stats = <<>> THEN Failed("ValueError")
    ELSE IF \E i \in DOMAIN stats : stats[i].refs_count = 0 THEN Failed("ZeroDivisionError")
    ELSE LET key(i) == <<stats[i].matches_count, stats[i].refs_count>>
             best == CHOOSE i \in DOMAIN stats :
                        /\ \A j \in DOMAIN stats : RLeq(key(j), key(i))
                        /\ \A j \in 1..(i - 1) : RLess(key(j), key(i))
         IN  [status |-> "ok",
              cands_count |-> stats[best].cands_count,
              refs_count |-> stats[best].refs_count,
              matches_count |-> stats[best].matches_count]

aggregate(sc, stats) == IF sc = "A" THEN aggregate_average(stats) ELSE aggregate_best(stats)

\* rouge.py 93-98: recall, precision, F-score and their rounding
scores_of(agg, a) ==
    LET recall == IF agg.refs_count # 0 THEN Rat(agg.matches_count, agg.refs_count) ELSE Zero
        precision == IF agg.cands_count # 0 THEN Rat(agg.matches_count, agg.cands_count) ELSE Zero
        denom == RAdd(RMul(RSub(One, a), precision), RMul(a, recall))
    IN  IF agg.status # "ok" THEN [status |-> agg.status, R |-> 0, P |-> 0, F |-> 0]
        ELSE IF agg.matches_count # 0 /\ denom[1] = 0
             THEN [status |-> "ZeroDivisionError", R |-> 0, P |-> 0, F |-> 0]
        ELSE [status |-> "ok",
              R |-> round5(recall),
              P |-> round5(precision),
              F |-> IF agg.matches_count # 0
                    THEN RoundFloat5(RDiv(RMul(precision, recall), denom),
                                     FScoreFloat(precision, recall, a))
                    ELSE 0]

\* rouge.py 72-98: one turn of the loop over n in n_score
n_score_n(sc, a, ref_texts_tokens, cand_text_tokens, n) ==
    scores_of(aggregate(sc, ref_stats(ref_texts_tokens, cand_text_tokens, n)), a)

\* n_score: the results dict, or the first exception of the loop
FirstErrorOrAll(per_n) ==
    LET bad == {n \in DOMAIN per_n : per_n[n].status # "ok"}
    IN  IF bad = {} THEN [status |-> "ok", value |-> per_n]
        ELSE [status |-> per_n[CHOOSE n \in bad : \A m \in bad : n <= m].status,
              value |-> <<>>]

\* rouge.py 72-100: the loop over n on the tokenized texts
NScoreOfTokens(maxn, sc, a, ref_texts_tokens, cand_text_tokens) ==
    FirstErrorOrAll(ListOf([n \in 1..maxn |->
        n_score_n(sc, a, ref_texts_tokens, cand_text_tokens, n)]))

\* rouge.py 71: [self._tokenize(ref) for ref in ref_texts]
TokenizeReferences(tk, ref_texts) ==
    ListOf([i \in DOMAIN ref_texts |-> tokenize_text(tk, ref_texts[i])])

n_score(tk, maxn, sc, a, ref_texts, cand_text) ==
    NScoreOfTokens(maxn, sc, a, TokenizeReferences(tk, ref_texts), tokenize_text(tk, cand_text))

-----------------------------------------------------------------------------
(* The incremental path.  The dict self.incremental is a record of its     *)
(* three values and the set of keys that are present.                      *)

IncrementalKeys == {"ref_counters", "refs_count", "prev_tokens"}

\* self.incremental = {} of __init__
EmptyIncremental ==
    [keys |-> {}, ref_counters |-> <<>>, refs_count |-> <<>>, prev_tokens |-> <<>>]

\* a reset that keeps the buffer it finds: what C8 rules out
reset_incremental_keeping(inc, tk, maxn, ref_texts) ==
    LET ref_counters ==
            ListOf([n \in 1..maxn |->
                ListOf([i \in DOMAIN ref_texts |->
                    generate_counter(ngram_tokenize(tokenize_text(tk, ref_texts[i]), n))])])
    IN  [inc EXCEPT
            !.keys = @ \cup IncrementalKeys,
            !.ref_counters = ref_counters,
            !.refs_count = [n \in 1..maxn |->
                SumSeq([i \in DOMAIN ref_texts |-> CounterTotal(ref_counters[n][i])])],
            !.prev_tokens = IF "prev_tokens" \in inc.keys THEN @ ELSE [i \in 1..maxn |-> ""]]

\* a reset that seeds the buffer with one placeholder fewer
reset_incremental_short(inc, tk, maxn, ref_texts) ==
    LET ref_counters ==
            ListOf([n \in 1..maxn |->
                ListOf([i \in DOMAIN ref_texts |->
                    generate_counter(ngram_tokenize(tokenize_text(tk, ref_texts[i]), n))])])
    IN  [inc EXCEPT
            !.keys = @ \cup IncrementalKeys,
            !.ref_counters = ref_counters,
            !.refs_count = [n \in 1..maxn |->
                SumSeq([i \in DOMAIN ref_texts |-> CounterTotal(ref_counters[n][i])])],
            !.prev_tokens = [i \in 1..(maxn - 1) |-> ""]]

\* reset_incremental: the dict it leaves, given the dict it finds
reset_incremental(inc, tk, maxn, ref_texts) ==
    LET ref_counters ==
            ListOf([n \in 1..maxn |->
                ListOf([i \in DOMAIN ref_texts |->
                    generate_counter(ngram_tokenize(tokenize_text(tk, ref_texts[i]), n))])])
    IN  [inc EXCEPT
            !.keys = @ \cup IncrementalKeys,
            !.ref_counters = ref_counters,
            !.refs_count = [n \in 1..maxn |->
                SumSeq([i \in DOMAIN ref_texts |-> CounterTotal(ref_counters[n][i])])],
            !.prev_tokens = [i \in 1..maxn |-> ""]]

\* lst[-n:]
LastN(lst, n) == SubSeq(lst, (IF Len(lst) > n THEN Len(lst) - n ELSE 0) + 1, Len(lst))

\* rouge.py 118: the n-grams one call tests, from the buffer it has extended
new_ngrams_of(inc, n) == ngram_tokenize(<<LastN(inc.prev_tokens, n)>>, n)

\* a variant of incremental_matches that tests membership in the union of the
\* references' tables, so that an n-gram counts once however many hold it
incremental_matches_union(inc, n) ==
    LET new_ngrams == new_ngrams_of(inc, n)
        ref_counters == inc.ref_counters[n]
    IN  Cardinality({j \in DOMAIN new_ngrams :
            \E r \in DOMAIN ref_counters : new_ngrams[j] \in DOMAIN ref_counters[r]})

\* rouge.py 117-122: matches_count of one n
incremental_matches(inc, n) ==
    LET new_ngrams == new_ngrams_of(inc, n)
        ref_counters == inc.ref_counters[n]
    IN  SumSeq([r \in DOMAIN ref_counters |->
            Cardinality({j \in DOMAIN new_ngrams : new_ngrams[j] \in DOMAIN ref_counters[r]})])

\* a recall of the incremental results: None, or a number
NoneR == [is_None |-> TRUE, R |-> Zero]
NumR(x) == [is_None |-> FALSE, R |-> x]

\* rouge.py 116-126: the loop over n, on the dict with the new tokens appended
IncrementalRecalls(inc2, maxn) ==
    IF \E n \in 1..maxn : inc2.refs_count[n] = 0
    THEN [inc |-> inc2, status |-> "ZeroDivisionError", value |-> <<>>]
    ELSE [inc |-> inc2, status |-> "ok",
          value |-> [n \in 1..maxn |->
              NumR(Rat(incremental_matches(inc2, n), inc2.refs_count[n]))]]

\* a variant of IncrementalStep that, given no new token, cuts the buffer
\* down to the context the next call needs
IncrementalStepTrimming(inc, maxn, new_tokens) ==
    IF new_tokens = <<>>
    THEN [inc |-> [inc EXCEPT !.prev_tokens = LastN(@, maxn)],
          status |-> "ok", value |-> [n \in 1..maxn |-> NoneR]]
    ELSE IF "prev_tokens" \notin inc.keys
    THEN [inc |-> inc, status |-> "KeyError", value |-> <<>>]
    ELSE IncrementalRecalls([inc EXCEPT !.prev_tokens = @ \o new_tokens], maxn)

\* a variant of IncrementalStep that answers recall 0 when the dict has no
\* buffer, where the code fails on the missing key
IncrementalStepLenient(inc, maxn, new_tokens) ==
    IF new_tokens = <<>>
    THEN [inc |-> inc, status |-> "ok", value |-> [n \in 1..maxn |-> NoneR]]
    ELSE IF "prev_tokens" \notin inc.keys
    THEN [inc |-> inc, status |-> "ok", value |-> [n \in 1..maxn |-> NumR(Zero)]]
    ELSE IncrementalRecalls([inc EXCEPT !.prev_tokens = @ \o new_tokens], maxn)

\* rouge.py 114-128: the branch on new_tokens
IncrementalStep(inc, maxn, new_tokens) ==
    IF new_tokens = <<>>
    THEN [inc |-> inc, status |-> "ok", value |-> [n \in 1..maxn |-> NoneR]]
    ELSE IF "prev_tokens" \notin inc.keys
    THEN [inc |-> inc, status |-> "KeyError", value |-> <<>>]
    ELSE IncrementalRecalls([inc EXCEPT !.prev_tokens = @ \o new_tokens], maxn)

\* n_score_incremental: [inc: the dict it leaves, status, value: the results]
n_score_incremental(inc, tk, maxn, new_text) ==
    IncrementalStep(inc, maxn, Flatten(tokenize_text(tk, new_text)))

-----------------------------------------------------------------------------
(* Inputs.                                                                 *)

Words == {"a", "b"}

RECURSIVE SeqsOfLen(_, _)
SeqsOfLen(S, k) ==
    IF k = 0 THEN {<<>>} ELSE {Append(s, x) : s \in SeqsOfLen(S, k - 1), x \in S}

\* the texts of exactly j words, and of at most m words
TextsOfLen(j) == {Join(" ", ws) : ws \in SeqsOfLen(Words, j)}
TextsUpTo(m) == UNION {TextsOfLen(j) : j \in 0..m}

\* the lists of at most k texts that hold at most t words in all
RECURSIVE TextLists(_, _)
TextLists(k, t) ==
    IF k = 0 THEN {<<>>}
    ELSE {<<>>} \cup UNION {{<<x>> \o rest : x \in TextsOfLen(j), rest \in TextLists(k - 1, t - j)} :
                            j \in 0..t}

WordCount(text) == Len(SplitWords(text))

RECURSIVE WordCountAll(_)
WordCountAll(texts) ==
    IF texts = <<>> THEN 0 ELSE WordCount(Head(texts)) + WordCountAll(Tail(texts))

\* a candidate and a non-empty list of at most MaxRefs references, MaxTokens words in all
BatchInputs ==
    {[ref_texts |-> Tail(l), cand_text |-> Head(l)] :
        l \in {x \in TextLists(MaxRefs + 1, MaxTokens) : Len(x) >= 2}}

\* the reference lists of a session: at most MaxRefs, MaxSessionTokens words in all
SessionInputs ==
    {[ref_texts |-> l, cand_text |-> ""] : l \in TextLists(MaxRefs, MaxSessionTokens) \ {<<>>}}

\* the texts tokenize_text is given: at most MaxTextLen characters
TextChars == {"a", "B", " ", "\n"}

RECURSIVE StringsOfLen(_)
StringsOfLen(k) ==
    IF k = 0 THEN {""} ELSE {s \o c : s \in StringsOfLen(k - 1), c \in TextChars}

RawTexts == UNION {StringsOfLen(k) : k \in 0..MaxTextLen}

\* alpha of the constructor, in [0, 1]
Alphas == {<<0, 1>>, <<1, 2>>, <<1, 1>>}

\* the tokenizer from_rouge155_args builds from its default arguments
DefaultTokenizer ==
    [byte_limit |-> 0, word_limit |-> 0, stem |-> FALSE, sw_removal |-> FALSE,
     sentence_split |-> "SPL"]

NoSession == [reset |-> FALSE, refs |-> <<>>, fed |-> <<>>, words |-> 0,
              sums |-> <<>>, all_ok |-> TRUE]

-----------------------------------------------------------------------------
(* The state machine.                                                      *)

\* Rouge.__init__ on a default tokenizer; the caller holds the texts of input
InitWith(inputs) ==
    /\ tokenizer = DefaultTokenizer
    /\ N \in 1..MaxN
    /\ scoring \in {"A", "B"}
    /\ alpha \in Alphas
    /\ input \in inputs
    /\ incremental = EmptyIncremental
    /\ call = [op |-> "__init__"]
    /\ ret = [status |-> "ok", value |-> <<>>]
    /\ session = NoSession

Init == InitWith(SessionInputs)

NScore ==
    /\ call' = [op |-> "n_score", ref_texts |-> input.ref_texts, cand_text |-> input.cand_text]
    /\ ret' = n_score(tokenizer, N, scoring, alpha, input.ref_texts, input.cand_text)
    /\ UNCHANGED <<tokenizer, N, scoring, alpha, input, incremental, session>>

\* the lists the caller resets with: all its references, or all but the first
ResetChoices(refs) == {refs} \cup (IF Len(refs) > 1 THEN {Tail(refs)} ELSE {})

ResetIncremental ==
    \E ref_texts \in ResetChoices(input.ref_texts) :
        \* found: what the call finds in self.incremental; same_refs: whether
        \* the references are those of the reset before
        /\ call' = [op |-> "reset_incremental", ref_texts |-> ref_texts,
                    found |-> IF incremental.keys = {} THEN "empty"
                              ELSE IF Len(incremental.prev_tokens) = N THEN "fresh"
                              ELSE "used",
                    same_refs |-> session.reset /\ session.refs = ref_texts]
        /\ incremental' = reset_incremental(incremental, tokenizer, N, ref_texts)
        /\ ret' = [status |-> "ok", value |-> <<>>]
        /\ session' = [reset |-> TRUE, refs |-> ref_texts, fed |-> <<>>,
                       words |-> WordCountAll(ref_texts),
                       sums |-> [n \in 1..N |-> 0], all_ok |-> TRUE]
        /\ UNCHANGED <<tokenizer, N, scoring, alpha, input>>

\* the per-increment numerator: the returned recall times the stored total
Numerator(r, total) == (r.R[1] * total) \div r.R[2]

\* session.words counts the words passed since the construction or the last
\* reset; session.fed keeps the increments whose tokens were appended;
\* session.sums adds up the numerators of the increments that returned numbers
\* the state after n_score_incremental(new_text) has given out
AfterIncrement(new_text, out) ==
    /\ call' = [op |-> "n_score_incremental", new_text |-> new_text]
    /\ incremental' = out.inc
    /\ ret' = [status |-> out.status, value |-> out.value]
    /\ session' =
         IF out.inc.prev_tokens = incremental.prev_tokens
         THEN [session EXCEPT !.words = @ + WordCount(new_text)]
         ELSE [session EXCEPT
                 !.fed = Append(@, new_text),
                 !.words = @ + WordCount(new_text),
                 !.all_ok = @ /\ out.status = "ok",
                 !.sums = IF out.status = "ok"
                          THEN [n \in 1..N |->
                                  @[n] + Numerator(out.value[n], out.inc.refs_count[n])]
                          ELSE @]
    /\ UNCHANGED <<tokenizer, N, scoring, alpha, input>>

NScoreIncremental ==
    \E new_text \in TextsUpTo(MaxSessionTokens - session.words) :
        AfterIncrement(new_text, n_score_incremental(incremental, tokenizer, N, new_text))

\* tokenize_text on the text the caller holds
TokenizeText ==
    /\ call' = [op |-> "tokenize_text", text |-> input.cand_text]
    /\ ret' = [status |-> "ok", value |-> tokenize_text(tokenizer, input.cand_text)]
    /\ UNCHANGED <<tokenizer, N, scoring, alpha, input, incremental, session>>

\* _preprocess_word on the word the caller holds; the value "" is None
PreprocessWord ==
    /\ call' = [op |-> "_preprocess_word", word |-> input.cand_text]
    /\ ret' = [status |-> "ok", value |-> preprocess_word(tokenizer, input.cand_text)]
    /\ UNCHANGED <<tokenizer, N, scoring, alpha, input, incremental, session>>

Next == NScore \/ ResetIncremental \/ NScoreIncremental \/ TokenizeText \/ PreprocessWord

Spec == Init /\ [][Next]_vars

\* the batch path: n_score on the texts the caller holds
NextBatch == call.op = "__init__" /\ NScore

InitBatch == InitWith(BatchInputs)

SpecBatch == InitBatch /\ [][NextBatch]_vars

\* the incremental path: a scorer with the default scoring, resets and increments
InitIncremental == Init /\ scoring = "A" /\ alpha = <<1, 2>>

NextIncremental == ResetIncremental \/ NScoreIncremental

SpecIncremental == InitIncremental /\ [][NextIncremental]_vars

\* the tokenizer alone: one configured Rouge155Tokenizer and one text
\* the three scoring operations of one scorer, in any order
\* the references of these sessions are made of the word "a"; the increments
\* fed to them are not restricted
ScorerInputs ==
    {x \in SessionInputs : \A i \in DOMAIN x.ref_texts : ~HasSubstring(x.ref_texts[i], "b")}
InitScorer == InitWith(ScorerInputs) /\ alpha = <<1, 2>>
NextScorer == NScore \/ ResetIncremental \/ NScoreIncremental
SpecScorer == InitScorer /\ [][NextScorer]_vars

TokenizerConfigs ==
    {[byte_limit |-> b, word_limit |-> w, stem |-> FALSE, sw_removal |-> FALSE,
      sentence_split |-> m] : b \in 0..MaxByteLimit, w \in 0..MaxWordLimit, m \in {"SPL", "None"}}

InitTokenizer ==
    /\ tokenizer \in TokenizerConfigs
    /\ N = 1
    /\ scoring = "A"
    /\ alpha = <<1, 2>>
    /\ input \in {[ref_texts |-> <<>>, cand_text |-> t] : t \in RawTexts}
    /\ incremental = EmptyIncremental
    /\ call = [op |-> "__init__"]
    /\ ret = [status |-> "ok", value |-> <<>>]
    /\ session = NoSession

NextTokenizer == call.op = "__init__" /\ TokenizeText

SpecTokenizer == InitTokenizer /\ [][NextTokenizer]_vars

\* construction of the tokenizer: the arguments are in tokenizer, no call made yet
SplitModes == {"None", "SPL", "SEE", "ISI", "SIMPLE", "XYZ"}

InitConstruct ==
    /\ tokenizer \in {[byte_limit |-> 0, word_limit |-> w, stem |-> FALSE, sw_removal |-> FALSE,
                        sentence_split |-> m] : w \in 0..MaxWordLimit, m \in SplitModes}
    /\ N = 1
    /\ scoring = "A"
    /\ alpha = <<1, 2>>
    /\ input \in {[ref_texts |-> <<>>, cand_text |-> t] : t \in RawTexts}
    /\ incremental = EmptyIncremental
    /\ call = [op |-> "new"]
    /\ ret = [status |-> "ok", value |-> <<>>]
    /\ session = NoSession

\* Rouge155Tokenizer.__init__ with stem and sw_removal off: only
\* _get_sentence_splitter can fail
ConstructTokenizer ==
    /\ call.op = "new"
    /\ call' = [op |-> "Rouge155Tokenizer", sentence_split |-> tokenizer.sentence_split]
    /\ ret' = [status |-> get_sentence_splitter(tokenizer.sentence_split), value |-> <<>>]
    /\ UNCHANGED <<tokenizer, N, scoring, alpha, input, incremental, session>>

\* tokenize_text on the tokenizer that was constructed, if one was
NextConstruct ==
    \/ ConstructTokenizer
    \/ (call.op = "Rouge155Tokenizer" /\ ret.status = "ok" /\ TokenizeText)

SpecConstruct == InitConstruct /\ [][NextConstruct]_vars

\* the word normalization alone: a tokenizer with either setting of stemming and
\* stopword removal, and one raw word
WordCharsIn == {"t", "T", "h", "e", "s", "$", "-", "9"}

RECURSIVE WordsOfLen(_)
WordsOfLen(k) ==
    IF k = 0 THEN {""} ELSE {s \o c : s \in WordsOfLen(k - 1), c \in WordCharsIn}

RawWords == UNION {WordsOfLen(k) : k \in 1..MaxWordLen} \cup {"afterwards", "Afterwards"}

WordConfigs ==
    {[byte_limit |-> 0, word_limit |-> 0, stem |-> st, sw_removal |-> sw,
      sentence_split |-> "SPL"] : st \in BOOLEAN, sw \in BOOLEAN}

InitWords ==
    /\ tokenizer \in WordConfigs
    /\ N = 1
    /\ scoring = "A"
    /\ alpha = <<1, 2>>
    /\ input \in {[ref_texts |-> <<>>, cand_text |-> w] : w \in RawWords}
    /\ incremental = EmptyIncremental
    /\ call = [op |-> "__init__"]
    /\ ret = [status |-> "ok", value |-> <<>>]
    /\ session = NoSession

NextWords == call.op = "__init__" /\ PreprocessWord

SpecWords == InitWords /\ [][NextWords]_vars

-----------------------------------------------------------------------------
(* What the claims speak of, stated on token sequences and not on the      *)
(* scorer's tables.                                                        *)

TokensOf(text) == Flatten(tokenize_text(tokenizer, text))

\* the n-grams of a token sequence with their positions
GramAt(tokens, n, i) == SubSeq(tokens, i, i + n - 1)
GramPositions(tokens, n) == {i \in 1..Len(tokens) : i + n - 1 <= Len(tokens)}
GramCount(tokens, n) == Cardinality(GramPositions(tokens, n))
Grams(tokens, n) == {GramAt(tokens, n, i) : i \in GramPositions(tokens, n)}
Occurrences(g, tokens, n) ==
    Cardinality({i \in GramPositions(tokens, n) : GramAt(tokens, n, i) = g})

RECURSIVE SumOfSet(_, _)
SumOfSet(F(_), S) ==
    IF S = {} THEN 0 ELSE LET x == CHOOSE y \in S : TRUE IN F(x) + SumOfSet(F, S \ {x})

\* multiset overlap of the n-grams of a candidate and a reference
Overlap(cand, ref, n) ==
    LET m(g) == Min(Occurrences(g, cand, n), Occurrences(g, ref, n))
    IN  SumOfSet(m, Grams(cand, n))

\* v, in units of 10^-5, is num/den rounded to 5 decimals (0 when den is 0)
IsRounded(v, num, den) ==
    IF den = 0 THEN v = 0
    ELSE /\ 2 * (v * den - 100000 * num) <= den
         /\ 2 * (100000 * num - v * den) <= den

IsNScore == call.op = "n_score"
\* the arguments of the last n_score call: tokenized, and as token sequences
CandDoc == tokenize_text(tokenizer, call.cand_text)
RefDocs == ListOf([i \in DOMAIN call.ref_texts |-> tokenize_text(tokenizer, call.ref_texts[i])])
TokensOfAll(docs) == ListOf([i \in DOMAIN docs |-> Flatten(docs[i])])
SumOverlap(cand, refs, n) == LET f(i) == Overlap(cand, refs[i], n) IN SumOfSet(f, DOMAIN refs)
SumRefCount(refs, n) == LET f(i) == GramCount(refs[i], n) IN SumOfSet(f, DOMAIN refs)

\* the whole text fed since the last reset, one increment per line
WholeText == Join("\n", session.fed)

-----------------------------------------------------------------------------
(* C1 [refinement_equivalence].  After reset_incremental(refs), for a text *)
(* fed in increments, the per-increment match counts (recall times the     *)
(* stored reference total) add up, for every n, to the match count n_score *)
(* uses for the whole text under scoring "A".                              *)
C1_IncrementalTelescoping ==
    (session.reset /\ session.all_ok) =>
        \A n \in 1..N :
            session.sums[n] =
                aggregate_average(
                    ref_stats([i \in DOMAIN session.refs |-> tokenize_text(tokenizer, session.refs[i])],
                              tokenize_text(tokenizer, WholeText), n)).matches_count

-----------------------------------------------------------------------------
(* C2 [functional_correctness].  In n_score the match count of each        *)
(* reference is the sum over the candidate's n-grams of the smaller of the *)
(* two counts, and the denominators count every n-gram occurrence; with    *)
(* one reference the returned recall and precision are these ratios.       *)
C2_MultisetMatching ==
    IsNScore =>
        LET candDoc == CandDoc
            refDocs == RefDocs
            cand == Flatten(candDoc)
            refs == TokensOfAll(refDocs)
        IN  \A n \in 1..N :
                LET stats == ref_stats(refDocs, candDoc, n)
                IN  /\ \A i \in DOMAIN refs :
                         /\ stats[i].matches_count = Overlap(cand, refs[i], n)
                         /\ stats[i].refs_count = GramCount(refs[i], n)
                         /\ stats[i].cands_count = GramCount(cand, n)
                    /\ (Len(refs) = 1 /\ ret.status = "ok") =>
                         /\ IsRounded(ret.value[n].R, Overlap(cand, refs[1], n),
                                      GramCount(refs[1], n))
                         /\ IsRounded(ret.value[n].P, Overlap(cand, refs[1], n),
                                      GramCount(cand, n))

\* candidate "a a b" against "a b": 2 matches, recall 2/2, precision 2/3
C2_Witness ==
    /\ IsNScore
    /\ call.cand_text = "a a b"
    /\ call.ref_texts = <<"a b">>
    /\ ret.status = "ok"
    /\ ret.value[1].R = 100000
    /\ ret.value[1].P = 66667

-----------------------------------------------------------------------------
(* C3 [functional_correctness].  With scoring "A" and k references,        *)
(* n_score returns, for every n, recall = sum of the matches / sum of the  *)
(* reference counts and precision = sum of the matches / (k * candidate    *)
(* count), each 0 when its denominator is 0.                               *)
C3_AverageAggregation ==
    (IsNScore /\ scoring = "A") =>
        LET cand == Flatten(CandDoc)
            refs == TokensOfAll(RefDocs)
        IN  /\ ret.status = "ok"
            /\ \A n \in 1..N :
                 /\ IsRounded(ret.value[n].R, SumOverlap(cand, refs, n), SumRefCount(refs, n))
                 /\ IsRounded(ret.value[n].P, SumOverlap(cand, refs, n),
                              Len(refs) * GramCount(cand, n))

\* references "a a a" and "a", candidate "a": recall (1+1)/(3+1), precision 2/(2*1)
C3_Witness ==
    /\ IsNScore
    /\ scoring = "A"
    /\ call.ref_texts = <<"a a a", "a">>
    /\ call.cand_text = "a"
    /\ ret.status = "ok"
    /\ ret.value[1].R = 50000
    /\ ret.value[1].P = 100000

-----------------------------------------------------------------------------
(* C4 [functional_correctness].  With scoring "B", n_score returns, for    *)
(* every n, the recall of the reference whose matches / reference count is *)
(* largest.                                                                *)
IsBestRecall(v, cand, refs, n) ==
    \E i \in DOMAIN refs :
        /\ IsRounded(v, Overlap(cand, refs[i], n), GramCount(refs[i], n))
        /\ \A j \in DOMAIN refs :
             Overlap(cand, refs[j], n) * GramCount(refs[i], n)
                 <= Overlap(cand, refs[i], n) * GramCount(refs[j], n)

C4_BestAggregation ==
    (IsNScore /\ scoring = "B") =>
        /\ ret.status = "ok"
        /\ \A n \in 1..N : IsBestRecall(ret.value[n].R, Flatten(CandDoc), TokensOfAll(RefDocs), n)

\* what holds of scoring "B": the rule of C4 wherever n_score returns
BestAggregationWhereReturned ==
    (IsNScore /\ scoring = "B" /\ ret.status = "ok") =>
        \A n \in 1..N : IsBestRecall(ret.value[n].R, Flatten(CandDoc), TokensOfAll(RefDocs), n)

-----------------------------------------------------------------------------
(* C5 [error_handling].  n_score never raises on a non-empty reference     *)
(* list: when the candidate or a reference has no n-gram, the ratio with   *)
(* the zero denominator is returned as 0 and so is the F-score.            *)
C5_DegenerateBatchNeverRaises ==
    IsNScore =>
        /\ ret.status = "ok"
        /\ \A n \in 1..N :
             /\ GramCount(Flatten(CandDoc), n) = 0 => (ret.value[n].P = 0 /\ ret.value[n].F = 0)
             /\ SumRefCount(TokensOfAll(RefDocs), n) = 0 => (ret.value[n].R = 0 /\ ret.value[n].F = 0)

-----------------------------------------------------------------------------
(* C9 [invariants].  Whenever n_score returns, for either scoring and      *)
(* every n, the match count it uses is at most the reference count and at  *)
(* most the candidate count used with it, and recall, precision and (for   *)
(* alpha in [0,1]) the F-score lie in [0,1].                               *)
C9_ScoresInUnitInterval ==
    (IsNScore /\ ret.status = "ok") =>
        LET candDoc == CandDoc
            refDocs == RefDocs
        IN  \A n \in 1..N :
                LET used == aggregate(scoring, ref_stats(refDocs, candDoc, n))
                IN  /\ used.matches_count <= used.refs_count
                    /\ used.matches_count <= used.cands_count
                    /\ ret.value[n].R \in 0..100000
                    /\ ret.value[n].P \in 0..100000
                    /\ ret.value[n].F \in 0..100000

\* two references that both hold the whole candidate: full precision, part recall
C9_Witness ==
    /\ IsNScore
    /\ ret.status = "ok"
    /\ Len(call.ref_texts) = 2
    /\ \E n \in 1..N :
         /\ ret.value[n].P = 100000
         /\ ret.value[n].R \in 1..99999
         /\ ret.value[n].F \in 1..99999

-----------------------------------------------------------------------------
(* C6 [error_handling].  After reset_incremental(refs), n_score_incremental *)
(* with a non-empty increment does not raise, and returns recall 0 for      *)
(* every n whose stored reference total is 0.                               *)
IsIncrement == call.op = "n_score_incremental"

C6_IncrementalZeroDenominator ==
    (IsIncrement /\ session.reset /\ TokensOf(call.new_text) # <<>>) =>
        /\ ret.status = "ok"
        /\ \A n \in 1..N : incremental.refs_count[n] = 0 => ret.value[n] = NumR(Zero)

-----------------------------------------------------------------------------
(* C7 [error_handling].  n_score_incremental with a text of zero tokens     *)
(* does not raise and returns None as the recall of every n; with a         *)
(* non-empty increment, after a reset, it returns a number for every n.     *)
C7_EmptyIncrement ==
    IsIncrement =>
        IF TokensOf(call.new_text) = <<>>
        THEN /\ ret.status = "ok"
             /\ \A n \in 1..N : ret.value[n].is_None
        ELSE session.reset =>
                /\ ret.status = "ok"
                /\ \A n \in 1..N : ~ret.value[n].is_None

-----------------------------------------------------------------------------
(* C8 [temporal].  After reset_incremental(refs) the incremental state is   *)
(* the one a freshly constructed scorer has after the same reset, whatever  *)
(* calls came before; so the state and the result of every later increment  *)
(* are those of a fresh scorer given the last reset's references and the    *)
(* increments fed since.                                                    *)
FreshReset(refs) == reset_incremental(EmptyIncremental, tokenizer, N, refs)

RECURSIVE Replayed(_, _)
Replayed(inc, fed) ==
    IF fed = <<>> THEN inc
    ELSE Replayed(n_score_incremental(inc, tokenizer, N, Head(fed)).inc, Tail(fed))

C8_ResetDiscardsPriorState ==
    session.reset =>
        /\ call.op = "reset_incremental" => incremental = FreshReset(call.ref_texts)
        /\ incremental = Replayed(FreshReset(session.refs), session.fed)
        /\ IsIncrement =>
             LET before == IF TokensOf(call.new_text) = <<>> THEN session.fed
                           ELSE SubSeq(session.fed, 1, Len(session.fed) - 1)
                 out == n_score_incremental(Replayed(FreshReset(session.refs), before),
                                            tokenizer, N, call.new_text)
             IN  ret = [status |-> out.status, value |-> out.value]

\* a reset with other references, made on a scorer that had been fed
C8_Witness ==
    /\ call.op = "reset_incremental"
    /\ call.found = "used"
    /\ ~call.same_refs
    /\ incremental.refs_count[1] > 0
    /\ Len(incremental.prev_tokens) = N

-----------------------------------------------------------------------------
(* C10 [functional_correctness].  With byte limit B > 0: when the tokens    *)
(* of the untruncated Document concatenate to more than B bytes, those of   *)
(* the returned Document concatenate to exactly B bytes, the sentences      *)
(* before the last are kept whole and the last is cut inside the crossing   *)
(* token; when they concatenate to less than B bytes the Document is        *)
(* returned unchanged; when to exactly B bytes, every token is kept and     *)
(* only the (empty) sentences after the one reaching B are dropped.         *)
DocBytes(doc) == Utf8Len(Join("", Flatten(doc)))
Untruncated == tokenize_text([tokenizer EXCEPT !.byte_limit = 0], call.text)
IsPrefixOf(s, t) == Len(s) <= Len(t) /\ s = SubSeq(t, 1, Len(s))
IsByteTruncation ==
    call.op = "tokenize_text" /\ tokenizer.byte_limit > 0 /\ tokenizer.word_limit = 0

\* doc is full cut inside one token of its last sentence
IsCutOf(doc, full) ==
    /\ doc # <<>>
    /\ Len(doc) <= Len(full)
    /\ \A i \in 1..(Len(doc) - 1) : doc[i] = full[i]
    /\ LET k == Len(doc)
           m == Len(doc[k])
       IN  /\ m >= 1
           /\ m <= Len(full[k])
           /\ \A j \in 1..(m - 1) : doc[k][j] = full[k][j]
           /\ IsPrefixOf(doc[k][m], full[k][m])

C10_ByteTruncation ==
    IsByteTruncation =>
        LET full == Untruncated
            B == tokenizer.byte_limit
        IN  /\ DocBytes(full) > B =>
                 /\ DocBytes(ret.value) = B
                 /\ IsCutOf(ret.value, full)
            /\ DocBytes(full) < B => ret.value = full
            /\ DocBytes(full) = B =>
                 /\ IsPrefixOf(ret.value, full)
                 /\ Flatten(ret.value) = Flatten(full)
                 /\ ret.value[Len(ret.value)] # <<>>

\* the claim as first stated: unchanged whenever the length is at most B
C10_ByteTruncationUnchangedUpToLimit ==
    IsByteTruncation =>
        LET full == Untruncated
            B == tokenizer.byte_limit
        IN  /\ DocBytes(full) > B => DocBytes(ret.value) = B
            /\ DocBytes(full) <= B => ret.value = full

\* "a\nBaa" with limit 3: the second sentence's token is cut to "ba"
C10_Witness ==
    /\ IsByteTruncation
    /\ tokenizer.byte_limit = 3
    /\ call.text = "a\nBaa"
    /\ Untruncated = <<<<"a">>, <<"baa">>>>
    /\ ret.value = <<<<"a">>, <<"ba">>>>

-----------------------------------------------------------------------------
(* C11 [functional_correctness].  With word limit W > 0: when the Document  *)
(* given to the word truncation has more than W tokens, the returned        *)
(* Document has exactly W tokens, the first W of the flattened stream; when *)
(* it has at most W tokens, no token is removed.                            *)
IsWordTruncation == call.op = "tokenize_text" /\ tokenizer.word_limit > 0
BeforeWordLimit == tokenize_text([tokenizer EXCEPT !.word_limit = 0], call.text)

C11_WordTruncation ==
    IsWordTruncation =>
        LET full == Flatten(BeforeWordLimit)
            W == tokenizer.word_limit
        IN  /\ Len(full) > W =>
                 /\ Len(Flatten(ret.value)) = W
                 /\ Flatten(ret.value) = SubSeq(full, 1, W)
            /\ Len(full) <= W => Flatten(ret.value) = full

\* "a\na a" with limit 2: the second sentence keeps its first word only
C11_Witness ==
    /\ IsWordTruncation
    /\ tokenizer.word_limit = 2
    /\ tokenizer.byte_limit = 0
    /\ call.text = "a\na a"
    /\ BeforeWordLimit = <<<<"a">>, <<"a", "a">>>>
    /\ ret.value = <<<<"a">>, <<"a">>>>

-----------------------------------------------------------------------------
(* C12 [functional_correctness].  For every raw word: with stopword removal *)
(* on, a word whose lowercased form is a stopword gives no token; with it   *)
(* off the same word is kept, lowercased (and stemmed when stemming is on); *)
(* a word whose lowercased form does not start with a lowercase letter, a   *)
(* digit or "$" gives no token under every setting; the stopword test is    *)
(* made on the unstemmed word, so a word that is no stopword is kept even   *)
(* when its stem is one.                                                    *)
IsPreprocessWord == call.op = "_preprocess_word"
IsAlnum(w) == \A i \in 1..Len(w) : CharAt(w, i) \in (WordChars \ {"-"})

C12_WordNormalization ==
    IsPreprocessWord =>
        LET w == lower(call.word)
            kept == IF tokenizer.stem THEN stem(w) ELSE w
            goodStart == CharAt(w, 1) \in TokenStartChars
        IN  /\ (tokenizer.sw_removal /\ w \in StopWords) => ret.value = ""
            /\ (~tokenizer.sw_removal /\ w \in StopWords) => (ret.value = kept /\ kept # "")
            /\ ~goodStart => ret.value = ""
            /\ (goodStart /\ w \notin StopWords) => (ret.value = kept /\ kept # "")
            /\ IsAlnum(call.word) =>
                 Flatten(tokenize_text(tokenizer, call.word))
                     = (IF ret.value = "" THEN <<>> ELSE <<ret.value>>)

\* "Thes" with both settings on: no stopword, kept as its stem "the", a stopword
C12_Witness ==
    /\ IsPreprocessWord
    /\ tokenizer.sw_removal
    /\ tokenizer.stem
    /\ call.word = "Thes"
    /\ ret.value = "the"
    /\ ret.value \in StopWords

-----------------------------------------------------------------------------
(* C13 [error_handling].  Constructing the tokenizer with mode ISI or       *)
(* SIMPLE fails with NotImplementedError, with any other unrecognized mode  *)
(* with the configuration error (AssertionError), and with None, SPL or SEE *)
(* it succeeds; no error is raised later, in tokenize_text.                 *)
C13_SplitModeErrors ==
    /\ call.op = "Rouge155Tokenizer" =>
         /\ call.sentence_split \in {"ISI", "SIMPLE"} => ret.status = "NotImplementedError"
         /\ call.sentence_split \in {"None", "SPL", "SEE"} => ret.status = "ok"
         /\ call.sentence_split \notin {"None", "SPL", "SEE", "ISI", "SIMPLE"} =>
              ret.status = "AssertionError"
    /\ call.op = "tokenize_text" => ret.status = "ok"

\* what holds of the modes: every mode but None, SPL and SEE fails with the
\* AssertionError at construction, and tokenize_text raises nothing
SplitModeErrorsAsCoded ==
    /\ call.op = "Rouge155Tokenizer" =>
         ret.status = (IF call.sentence_split \in {"None", "SPL", "SEE"}
                       THEN "ok" ELSE "AssertionError")
    /\ call.op = "tokenize_text" =>
         (ret.status = "ok" /\ tokenizer.sentence_split \in {"None", "SPL", "SEE"})

-----------------------------------------------------------------------------
(* C14 [functional_correctness].  In n_score_incremental with an increment  *)
(* of m > 0 new tokens, for each n the n-grams tested against the           *)
(* references are the m n-grams ending within the new tokens: all windows   *)
(* of size n of the last m+n-1 tokens of the extended buffer.               *)
NewTokenCount == Len(TokensOf(call.new_text))

C14_IncrementalWindow ==
    (IsIncrement /\ session.reset /\ NewTokenCount > 0) =>
        \A n \in 1..N :
            /\ Len(new_ngrams_of(incremental, n)) = NewTokenCount
            /\ new_ngrams_of(incremental, n)
                 = ngram_tokenize(<<LastN(incremental.prev_tokens, NewTokenCount + n - 1)>>, n)

\* what holds of the window: one n-gram per call, made of the last n tokens
IncrementalWindowAsCoded ==
    (IsIncrement /\ session.reset /\ NewTokenCount > 0) =>
        \A n \in 1..N :
            new_ngrams_of(incremental, n) = <<Join(" ", LastN(incremental.prev_tokens, n))>>

-----------------------------------------------------------------------------
(* C15 [functional_correctness].  In n_score_incremental, for each n, every *)
(* n-gram the step tests adds 1 to the matches count for each stored        *)
(* reference table of that n that contains it (membership, not a multiset   *)
(* count, and reference by reference): an n-gram found in k references      *)
(* counts k times, and the matches count of a step is at most the number    *)
(* of tested n-grams times the number of references.                        *)
IsScoredIncrement ==
    IsIncrement /\ session.reset /\ NewTokenCount > 0 /\ ret.status = "ok"

\* the references of the session as token sequences
SessionRefs == ListOf([i \in DOMAIN session.refs |-> TokensOf(session.refs[i])])
\* the n-grams of the buffer that end within the tokens of the last increment
NewGrams(n) ==
    LET window == LastN(incremental.prev_tokens, NewTokenCount + n - 1)
    IN  ListOf([i \in 1..(Len(window) - n + 1) |-> GramAt(window, n, i)])
\* the n-gram made of the last n tokens of the buffer
TestedGram(n) == LastN(incremental.prev_tokens, n)
ReferencesHolding(g, refs, n) == {r \in DOMAIN refs : g \in Grams(refs[r], n)}
StepMatches(n) == Numerator(ret.value[n], incremental.refs_count[n])

C15_PerReferenceMatchRule ==
    IsScoredIncrement =>
        LET refs == SessionRefs
        IN  \A n \in 1..N :
              /\ ~ret.value[n].is_None
              /\ incremental.refs_count[n] = SumRefCount(refs, n)
              /\ ret.value[n].R
                   = Rat(Cardinality(ReferencesHolding(TestedGram(n), refs, n)),
                         SumRefCount(refs, n))
              /\ StepMatches(n) <= Len(refs)

\* an increment whose unigram is in both references counts 2 matches
C15_Witness ==
    /\ IsScoredIncrement
    /\ session.refs = <<"a", "a">>
    /\ call.new_text = "a"
    /\ Len(NewGrams(1)) = 1
    /\ StepMatches(1) = 2
    /\ ret.value[1].R = <<1, 1>>

\* the rule with membership in the union of the tables: each new n-gram
\* counts once, and a step has at most as many matches as new n-grams
C15_UnionMatchRule ==
    IsScoredIncrement =>
        LET refs == SessionRefs
        IN  \A n \in 1..N :
              LET new == NewGrams(n)
                  hits == {j \in DOMAIN new : ReferencesHolding(new[j], refs, n) # {}}
              IN  /\ ret.value[n].R = Rat(Cardinality(hits), SumRefCount(refs, n))
                  /\ StepMatches(n) <= Len(new)

\* the same rule on increments of one token, where the tested n-gram is the
\* only new one
C15_UnionMatchRuleOneToken ==
    (IsScoredIncrement /\ NewTokenCount = 1) =>
        LET refs == SessionRefs
        IN  \A n \in 1..N :
              /\ NewGrams(n) = <<TestedGram(n)>>
              /\ StepMatches(n) <= 1

-----------------------------------------------------------------------------
(* C16 [temporal].  On a scorer on which reset_incremental was never        *)
(* called, n_score_incremental with an increment of at least one token      *)
(* fails with an error and returns no recall, and with an increment of no   *)
(* token returns the no-value recall for every n; hence every numeric       *)
(* incremental recall returned comes after a reset_incremental call.        *)
ReturnsNumber == ret.status = "ok" /\ \E n \in DOMAIN ret.value : ~ret.value[n].is_None

C16_IncrementBeforeReset ==
    IsIncrement =>
        /\ (~session.reset /\ NewTokenCount > 0) =>
              /\ ret.status = "KeyError"
              /\ ret.value = <<>>
              /\ incremental = EmptyIncremental
        /\ (~session.reset /\ NewTokenCount = 0) =>
              /\ ret.status = "ok"
              /\ DOMAIN ret.value = 1..N
              /\ \A n \in 1..N : ret.value[n].is_None
        /\ ReturnsNumber => session.reset

\* a non-empty increment on a scorer never reset: the call fails
C16_Witness ==
    /\ IsIncrement
    /\ ~session.reset
    /\ call.new_text = "a"
    /\ NewTokenCount = 1
    /\ ret.status = "KeyError"

\* an empty increment on a scorer never reset: no value for every n
C16_WitnessEmpty ==
    /\ IsIncrement
    /\ ~session.reset
    /\ call.new_text = ""
    /\ ret.status = "ok"
    /\ \A n \in 1..N : ret.value[n].is_None

-----------------------------------------------------------------------------
(* C17 [frame_effect].  In any interleaving of n_score, n_score_incremental *)
(* and reset_incremental on one scorer: the stored reference tables and     *)
(* totals change only in reset_incremental; n_score leaves the whole        *)
(* incremental state unchanged; n_score_incremental changes nothing but     *)
(* the carry-over buffer; an increment of no token changes nothing.         *)
ReferenceState(inc) ==
    [keys |-> inc.keys, ref_counters |-> inc.ref_counters, refs_count |-> inc.refs_count]

FrameOfStep ==
    /\ ReferenceState(incremental') # ReferenceState(incremental)
          => call'.op = "reset_incremental"
    /\ call'.op = "n_score" => incremental' = incremental
    /\ call'.op = "n_score_incremental" =>
          /\ ReferenceState(incremental') = ReferenceState(incremental)
          /\ TokensOf(call'.new_text) = <<>> => incremental' = incremental
          /\ \E added \in {<<>>, TokensOf(call'.new_text)} :
                incremental'.prev_tokens = incremental.prev_tokens \o added

C17_OnlyResetWritesReferences == [][FrameOfStep]_vars

\* n_score called in the middle of a session, and an empty increment after
\* tokens were fed: the buffer still holds the tokens fed
C17_Witness ==
    /\ call.op \in {"n_score", "n_score_incremental"}
    /\ call.op = "n_score_incremental" => call.new_text = ""
    /\ session.reset
    /\ session.fed # <<>>
    /\ incremental.prev_tokens = [i \in 1..N |-> ""] \o TokensOf(WholeText)
    /\ incremental.refs_count[1] = SumRefCount(SessionRefs, 1)

-----------------------------------------------------------------------------
(* C18 [functional_correctness].  With scoring "B", when several references *)
(* reach the same largest match-count / reference-count ratio for some n,   *)
(* n_score (where it returns) uses the counts of the first of them in the   *)
(* order of the reference list: the recall is the same for every ordering   *)
(* of the references, precision and F-score are those of that reference.    *)
IsBestOf(i, cand, refs, n) ==
    \A j \in DOMAIN refs :
        Overlap(cand, refs[j], n) * GramCount(refs[i], n)
            <= Overlap(cand, refs[i], n) * GramCount(refs[j], n)
FirstBest(cand, refs, n) ==
    CHOOSE i \in DOMAIN refs :
        IsBestOf(i, cand, refs, n) /\ \A j \in 1..(i - 1) : ~IsBestOf(j, cand, refs, n)
Reorderings(refs) ==
    {ListOf([i \in DOMAIN refs |-> refs[p[i]]]) : p \in Permutations(DOMAIN refs)}

\* R, P and F of the result are those of reference i
IsTripleOf(res, i, cand, refs, n) ==
    LET m == Overlap(cand, refs[i], n)
        c == GramCount(cand, n)
        r == GramCount(refs[i], n)
    IN  /\ IsRounded(res.R, m, r)
        /\ IsRounded(res.P, m, c)
        /\ IF m = 0 THEN res.F = 0
           ELSE IsRounded(res.F, m * alpha[2], (alpha[2] - alpha[1]) * r + alpha[1] * c)

C18_BestTieBreaking ==
    (IsNScore /\ scoring = "B" /\ ret.status = "ok") =>
        LET docs == RefDocs
            cand == Flatten(CandDoc)
            refs == TokensOfAll(docs)
        IN  \A n \in 1..N :
              /\ IsTripleOf(ret.value[n], FirstBest(cand, refs, n), cand, refs, n)
              /\ \A other \in Reorderings(docs) :
                    LET res == n_score_n("B", alpha, other, <<cand>>, n)
                    IN  res.status = "ok" /\ res.R = ret.value[n].R

\* two references tie at ratio 1 with 1 and 2 matches: the precision is that
\* of the first, 1/2, where the second would give 1
C18_Witness ==
    /\ IsNScore /\ scoring = "B" /\ ret.status = "ok"
    /\ N = 1
    /\ call.cand_text = "a a"
    /\ call.ref_texts = <<"a", "a a">>
    /\ IsBestOf(1, <<"a", "a">>, <<<<"a">>, <<"a", "a">>>>, 1)
    /\ IsBestOf(2, <<"a", "a">>, <<<<"a">>, <<"a", "a">>>>, 1)
    /\ ret.value[1].R = 100000
    /\ ret.value[1].P = 50000

-----------------------------------------------------------------------------
(* C19 [invariants].  Right after reset_incremental the carry-over buffer   *)
(* consists of exactly N empty-string placeholders, and after any sequence  *)
(* of n_score_incremental calls it holds these N placeholders followed by   *)
(* every token fed since the reset: its length is N plus the number of      *)
(* tokens fed, and grows with each increment that has tokens.               *)
Placeholders(k) == [i \in 1..k |-> ""]
TokensFed == TokensOf(WholeText)

C19_BufferKeepsAllTokens ==
    session.reset =>
        /\ call.op = "reset_incremental" => incremental.prev_tokens = Placeholders(N)
        /\ incremental.prev_tokens = Placeholders(N) \o TokensFed
        /\ Len(incremental.prev_tokens) = N + Len(TokensFed)

\* two increments of one token each: the buffer has grown by two
C19_Witness ==
    /\ IsIncrement /\ session.reset /\ ret.status = "ok"
    /\ session.fed = <<"a", "b">>
    /\ Len(incremental.prev_tokens) = N + 2
    /\ incremental.prev_tokens = Placeholders(N) \o <<"a", "b">>

\* the buffer of N-1 placeholders that keeps only the last N-1 tokens
C19_BufferOfLastTokens ==
    session.reset =>
        /\ call.op = "reset_incremental" => incremental.prev_tokens = Placeholders(N - 1)
        /\ Len(incremental.prev_tokens) = N - 1
        /\ incremental.prev_tokens = LastN(Placeholders(N - 1) \o TokensFed, N - 1)

=============================================================================
